---------------------------- MODULE Spec2Model ----------------------------
(***************************************************************************)
(* Throttler and withRetries of the image-edit server                      *)
(* (src/unnamed/part_002, lines 18-98) and their composition at the        *)
(* POST /api/edit-image call site (lines 188-191).                         *)
(*                                                                         *)
(* Every caller c runs withRetries(() => throttler.schedule(fn_c), m).     *)
(* Times are milliseconds.  A timer (setTimeout) never fires before its    *)
(* deadline and may fire late; the clock (Date.now) never goes back.       *)
(* Times are kept relative to the current instant: sinceLast is            *)
(* Date.now() - lastTime, and timer[c] is what is left of a setTimeout.    *)
(***************************************************************************)
EXTENDS Integers, Sequences, FiniteSets, TLC

\* ------------------------------------------------------------------ bounds
NCallers == 3          \* concurrent callers of withRetries
MaxRetries == 2        \* largest maxRetries a caller passes
MaxTotalRetries == 2   \* the maxRetries of all callers together
TickMs == 1000         \* granularity of the clock
MaxWorkMs == 1000      \* a unit of work settles within this time
MaxDelayLen == 5       \* longest retryDelay string a failure carries

\* ------------------------------------------------------- program constants
MIN_INTERVAL_MS == 2000
BASE_BACKOFF_MS == 2000

Max(a, b) == IF a >= b THEN a ELSE b

Callers == 1..NCallers
Intervals == {0, MIN_INTERVAL_MS}   \* constructor argument of the Throttler
Min(a, b) == IF a <= b THEN a ELSE b
RetryBudgets == 0..MaxRetries   \* maxRetries arguments of withRetries

RECURSIVE Pow2(_)
Pow2(n) == IF n <= 0 THEN 1 ELSE 2 * Pow2(n - 1)


\* ------------------------------------------------------------ failure values
(* A failure value e, as the code reads it: whether (e as any)?.message is  *)
(* a non-empty string, the marker substrings that message contains, and     *)
(* what JSON.parse(message) yields (valid = FALSE: it throws).  A           *)
(* retryDelay is a JavaScript string, written as a sequence of characters.  *)
RETRY_INFO_TYPE == "type.googleapis.com/google.rpc.RetryInfo"

NoJson == [valid |-> FALSE, hasDetails |-> FALSE, details |-> <<>>]
JsonDetails(ds) == [valid |-> TRUE, hasDetails |-> TRUE, details |-> ds]
JsonNoDetails == [valid |-> TRUE, hasDetails |-> FALSE, details |-> <<>>]
RetryInfo(delay) == [type |-> RETRY_INFO_TYPE, hasDelay |-> TRUE, retryDelay |-> delay]
RetryInfoNoDelay == [type |-> RETRY_INFO_TYPE, hasDelay |-> FALSE, retryDelay |-> <<>>]
OtherDetail == [type |-> "type.googleapis.com/google.rpc.Help", hasDelay |-> FALSE,
                retryDelay |-> <<>>]
\* an Error instance with a message
Failure(words, json) ==
    [isError |-> TRUE, hasMessage |-> TRUE, words |-> words, json |-> json]
\* a thrown value that is no Error instance but has a message property
Thrown(words, json) ==
    [isError |-> FALSE, hasMessage |-> TRUE, words |-> words, json |-> json]

(* What a call of parseRetryDelayMs ends with: undefined, a number, or an   *)
(* exception leaving the function.                                          *)
Undefined == [defined |-> FALSE, value |-> 0, raised |-> FALSE]
Number(n) == [defined |-> TRUE, value |-> n, raised |-> FALSE]
Raised == [defined |-> FALSE, value |-> 0, raised |-> TRUE]

\* msg.includes(w), the message given by the marker words it contains
Includes(e, w) == e.hasMessage /\ \E i \in DOMAIN e.words : e.words[i] = w

isRateLimited(e) ==
    \/ Includes(e, "RESOURCE_EXHAUSTED")
    \/ Includes(e, "Too Many Requests")
    \/ Includes(e, "quota")

\* ------------------------------------------------------------- parseFloat
Digits == {"0", "1", "2", "3", "4", "5", "6", "7", "8", "9"}
DigitValue(ch) ==
    CASE ch = "0" -> 0 [] ch = "1" -> 1 [] ch = "2" -> 2 [] ch = "3" -> 3
      [] ch = "4" -> 4 [] ch = "5" -> 5 [] ch = "6" -> 6 [] ch = "7" -> 7
      [] ch = "8" -> 8 [] ch = "9" -> 9

\* the number of leading digits of s from position i on
RECURSIVE DigitRun(_, _)
DigitRun(s, i) ==
    IF i <= Len(s) /\ s[i] \in Digits THEN 1 + DigitRun(s, i + 1) ELSE 0

RECURSIVE DecimalValue(_, _, _)
DecimalValue(s, i, n) ==
    IF n = 0 THEN 0 ELSE DecimalValue(s, i, n - 1) * 10 + DigitValue(s[i + n - 1])

RECURSIVE Pow10(_)
Pow10(n) == IF n <= 0 THEN 1 ELSE 10 * Pow10(n - 1)

NaN == [nan |-> TRUE, neg |-> FALSE, num |-> 0, scale |-> 0]
\* what parseFloat returns
Floats == [nan : BOOLEAN, neg : BOOLEAN, num : Nat, scale : Nat]

(* parseFloat(s): the longest prefix [+-] digits [. digits] of s, NaN when   *)
(* that prefix holds no digit.  The result is given by the decimal the      *)
(* prefix writes, num / 10^scale: the number parseFloat returns is the      *)
(* binary64 nearest to it (see SignificandError).  Exponents, "Infinity"    *)
(* and leading white space are not modelled: no string here holds them.     *)
parseFloat[s \in Seq(STRING)] ==
    LET signed == Len(s) >= 1 /\ s[1] \in {"-", "+"}
        i0 == IF signed THEN 2 ELSE 1
        ni == DigitRun(s, i0)
        dot == i0 + ni <= Len(s) /\ s[i0 + ni] = "."
        nf == IF dot THEN DigitRun(s, i0 + ni + 1) ELSE 0
    IN  IF ni + nf = 0 THEN NaN
        ELSE [nan |-> FALSE,
              neg |-> signed /\ s[1] = "-",
              num |-> DecimalValue(s, i0, ni) * Pow10(nf)
                        + DecimalValue(s, i0 + ni + 1, nf),
              scale |-> nf]

\* ------------------------------------------------- binary64 (IEEE 754) numbers
\* floor(log2(n / q)) for n, q > 0: the binary exponent of n / q
Exponent[n \in Nat, q \in Nat] ==
    IF n >= 2 * q THEN 1 + Exponent[n, 2 * q]
    ELSE IF n < q THEN Exponent[2 * n, q] - 1
    ELSE 0

\* 2^k mod m
Pow2Mod[k \in Nat, m \in Nat] == IF k = 0 THEN 1 % m ELSE (2 * Pow2Mod[k - 1, m]) % m

(* What parseFloat loses or adds when it rounds x = p / w (p > 0) to the    *)
(* nearest binary64, ties to even.  With K = 52 - Exponent[p, w] the 53-bit *)
(* significand is the integer sig nearest to x * 2^K, and the value here is *)
(* sig * w - p * 2^K, so that parseFloat gives                              *)
(* x + SignificandError / (w * 2^K).  Only (p * 2^K) mod w and the parity   *)
(* of floor(x * 2^K) are needed, both found by modular arithmetic.          *)
SignificandError[p \in Nat, w \in Nat] ==
    LET K == 52 - Exponent[p, w]
        t == ((p % w) * Pow2Mod[K, w]) % w
        odd == ((p % (2 * w)) * Pow2Mod[K, 2 * w]) % (2 * w) >= w
    IN  IF 2 * t < w \/ (2 * t = w /\ ~odd) THEN -t ELSE w - t

(* sec * 1000 in binary64 when num * 1000 / den is an integer M > 0, with   *)
(* sec = parseFloat's rounding of num / den: 1 when the product is a        *)
(* binary64 above M, -1 when it is one below M, 0 when it is M.  The exact  *)
(* product is M + 1000 * r / (den * 2^K), r = SignificandError[num, den]    *)
(* and K = 52 - Exponent[num, den];                                         *)
(* it rounds away from M when it lies beyond the midpoint between M and the *)
(* binary64 next to M on that side (M has an even significand: a tie gives  *)
(* M).                                                                      *)
ProductDrift[num \in Nat, den \in Nat] ==
    LET e == Exponent[num, den]
        M == (num * 1000) \div den
        eM == Exponent[M, 1]
        r == SignificandError[num, den]
        below == IF M = Pow2(eM) THEN eM - e - 1 ELSE eM - e
    IN  IF r > 0 /\ 2000 * r > den * Pow2(eM - e) THEN 1
        ELSE IF r < 0 /\ 2000 * (-r) > den * Pow2(below) THEN -1
        ELSE 0

\* ------------------------------------------------------- parseRetryDelayMs
(* Math.ceil(sec * 1000), sec the binary64 parseFloat returned for the      *)
(* decimal (-)num / 10^scale.  When num * 1000 / 10^scale is no integer the *)
(* product lies strictly between two integers, as the exact one does.       *)
CeilTimes1000[sec \in Floats] ==
    LET den == Pow10(sec.scale)
        whole == (sec.num * 1000) \div den
        exact == (sec.num * 1000) % den = 0
    IN  IF sec.num = 0 THEN 0
        ELSE IF ~exact THEN (IF sec.neg THEN -whole ELSE whole + 1)
        ELSE LET drift == ProductDrift[sec.num, den]
             IN  IF sec.neg THEN (IF drift < 0 THEN -(whole - 1) ELSE -whole)
                 ELSE (IF drift > 0 THEN whole + 1 ELSE whole)

\* details.find((d) => d["@type"] === RETRY_INFO_TYPE): the first match's index, 0 for none
RECURSIVE FindRetryInfo(_, _)
FindRetryInfo(details, i) ==
    IF i > Len(details) THEN 0
    ELSE IF details[i].type = RETRY_INFO_TYPE THEN i
    ELSE FindRetryInfo(details, i + 1)

endsWith(s, ch) == Len(s) >= 1 /\ s[Len(s)] = ch

\* a variant of parseRetryDelayMs without the try/catch around JSON.parse
parseRetryDelayMsUncaught(e) ==
    IF ~e.hasMessage THEN Undefined
    ELSE IF ~e.json.valid THEN Raised
    ELSE LET details == IF e.json.hasDetails THEN e.json.details ELSE <<>>
             k == FindRetryInfo(details, 1)
         IN  IF k = 0 THEN Undefined
             ELSE LET ri == details[k]
                  IN  IF ri.hasDelay /\ Len(ri.retryDelay) > 0 /\ endsWith(ri.retryDelay, "s")
                      THEN LET sec == parseFloat[SubSeq(ri.retryDelay, 1, Len(ri.retryDelay) - 1)]
                           IN  IF ~sec.nan THEN Number(CeilTimes1000[sec]) ELSE Undefined
                      ELSE Undefined

parseRetryDelayMs(e) ==
    IF ~e.hasMessage THEN Undefined
    ELSE IF ~e.json.valid THEN Undefined
    ELSE LET details == IF e.json.hasDetails THEN e.json.details ELSE <<>>
             k == FindRetryInfo(details, 1)
         IN  IF k = 0 THEN Undefined
             ELSE LET ri == details[k]
                  IN  IF ri.hasDelay /\ Len(ri.retryDelay) > 0 /\ endsWith(ri.retryDelay, "s")
                      THEN LET sec == parseFloat[SubSeq(ri.retryDelay, 1, Len(ri.retryDelay) - 1)]
                           IN  IF ~sec.nan THEN Number(CeilTimes1000[sec]) ELSE Undefined
                      ELSE Undefined

\* parseRetryDelayMs(e) ?? 2000 * Math.pow(2, attempt)
BackoffDelay(e, attempt) ==
    LET hint == parseRetryDelayMs(e)
    IN  IF hint.defined THEN hint.value ELSE BASE_BACKOFF_MS * Pow2(attempt)

\* --------------------------------------------- failures the units of work raise
ErrInternal == Failure(<<"internal error">>, NoJson)
ErrExhausted == Failure(<<"RESOURCE_EXHAUSTED">>, NoJson)
ErrHinted == Failure(<<"RESOURCE_EXHAUSTED", "quota">>,
                     JsonDetails(<<RetryInfo(<<"1", ".", "5", "s">>)>>))
Errors == {ErrInternal, ErrExhausted, ErrHinted}
\* the SyntaxError of JSON.parse
ParsingError == Failure(<<"Unexpected token">>, NoJson)

Resolved(v) == [state |-> "resolved", value |-> v, error |-> ErrInternal]
Rejected(e) == [state |-> "rejected", value |-> 0, error |-> e]
Pending == [state |-> "pending", value |-> 0, error |-> ErrInternal]
\* what the unit of work of caller c can settle with
Outcomes(c) == {Resolved(c)} \cup {Rejected(e) : e \in Errors}

\* ------------------------------------------------------------------- state
VARIABLES
    interval,    \* Throttler.interval
    sinceLast,   \* Date.now() - Throttler.lastTime, up to MaxAge
    running,     \* Throttler.running
    queue,       \* Throttler.queue: the callers whose run closure is queued
    pc,          \* where each caller's withRetries call (and its run closure) stands
    maxRetries,  \* withRetries' maxRetries
    attempt,     \* withRetries' attempt
    lastErr,     \* withRetries' lastErr
    timer,       \* what is left of the caller's pending setTimeout, NoTimer for none
    promise,     \* the promise returned by the caller's current schedule call
    result,      \* what withRetries returned or threw
    fnOut,       \* history: what the caller's unit of work last settled with
    hist,        \* history: the kinds of outcome of the caller's attempts, in order
    calls,       \* history: how many times the caller's work was invoked
    waits,       \* history: how many backoff waits the caller started
    ticket,      \* history: ordinal of the caller's schedule call awaiting dispatch
    nTickets,    \* history: number of schedule calls so far
    order,       \* history: tickets in the order of their dispatch starts
    flying,      \* history: ticket of the caller's entry whose work was invoked and
                 \*          whose outcome the caller has not seen yet, 0 for none
    done,        \* history: tickets in the order in which their work settled
    response,    \* what the request handler of the caller answered
    lastGap      \* history: time between the latest two dispatch starts, up to interval

throttlerVars == <<interval, sinceLast, running, queue>>
retryVars == <<maxRetries, attempt, lastErr, result>>
histVars == <<fnOut, hist, calls, waits, ticket, nTickets, order, lastGap, flying, done>>
vars == <<throttlerVars, pc, timer, promise, retryVars, histVars, response>>

NoTimer == -1

(* The age of the last dispatch beyond which nothing depends on it: it      *)
(* delays no later dispatch, and the unit of work it started has settled.   *)
MaxAge == Max(interval, MaxWorkMs)
NoFailure == [isError |-> FALSE, hasMessage |-> FALSE, words |-> <<>>, json |-> NoJson]

\* ---------------------------------------- the handler's failure response
\* the message the handler reports: the text of a failure, or "Unknown error"
MessageOf(e) == [unknown |-> FALSE, hasText |-> e.hasMessage, words |-> e.words, json |-> e.json]
UnknownError == [unknown |-> TRUE, hasText |-> TRUE, words |-> <<>>, json |-> NoJson]

NoResponse ==
    [sent |-> FALSE, handled |-> FALSE, status |-> 0, error |-> UnknownError,
     retryAfterMs |-> Undefined]
\* c.json({ success: false, error: message, retryAfterMs }, status)
FailureResponse(status, message, hint) ==
    [sent |-> TRUE, handled |-> TRUE, status |-> status, error |-> message,
     retryAfterMs |-> hint]
(* an exception leaving the catch block: the framework answers with its     *)
(* own 500 response                                                         *)
ServerError ==
    [sent |-> TRUE, handled |-> FALSE, status |-> 500, error |-> UnknownError,
     retryAfterMs |-> Undefined]

(* lastTime = 0 and Date.now() is the time since 1970: the first dispatch   *)
(* finds the interval long elapsed.                                         *)
Init ==
    /\ interval \in Intervals
    /\ sinceLast = MaxAge
    /\ running = FALSE
    /\ queue = <<>>
    /\ pc = [c \in Callers |-> "idle"]
    /\ maxRetries = [c \in Callers |-> 0]
    /\ attempt = [c \in Callers |-> 0]
    /\ lastErr = [c \in Callers |-> NoFailure]
    /\ timer = [c \in Callers |-> NoTimer]
    /\ promise = [c \in Callers |-> Pending]
    /\ result = [c \in Callers |-> Pending]
    /\ fnOut = [c \in Callers |-> Pending]
    /\ hist = [c \in Callers |-> <<>>]
    /\ calls = [c \in Callers |-> 0]
    /\ waits = [c \in Callers |-> 0]
    /\ ticket = [c \in Callers |-> 0]
    /\ nTickets = 0
    /\ order = <<>>
    /\ lastGap = interval
    /\ flying = [c \in Callers |-> 0]
    /\ done = <<>>
    /\ response = [c \in Callers |-> NoResponse]

(* A continuation of a settled promise is a microtask: timers, incoming     *)
(* requests and the clock wait until the microtask queue has drained.       *)
MicrotaskPending ==
    \E c \in Callers :
        \/ pc[c] = "settled"
        \/ pc[c] = "threw" /\ ~response[c].sent

\* --------------------------------------------------------------- Throttler
\* a variant of Wait that waits the whole interval from the decision on
WaitFullInterval(since, gap) == gap

\* a variant of Wait with the sign of the elapsed time swapped
WaitSignSwapped(since, gap) == Max(0, since - gap)

(* const wait = Math.max(0, this.lastTime + this.interval - now), with      *)
(* since = now - this.lastTime                                              *)
Wait(since, gap) == Max(0, gap - since)

(* run() up to its first suspension, for the entry of caller c with ticket  *)
(* tk: it suspends on the timer when wait > 0, and otherwise sets lastTime  *)
(* and invokes fn at once.  pcs and timers are pc and timer as the caller   *)
(* of run leaves them.                                                      *)
run(c, tk, pcs, timers) ==
    LET wait == Wait(sinceLast, interval)
    IN  IF wait > 0
        THEN /\ pc' = [pcs EXCEPT ![c] = "gap"]
             /\ timer' = [timers EXCEPT ![c] = wait]
             /\ ticket' = [ticket EXCEPT ![c] = tk]
             /\ UNCHANGED <<sinceLast, lastGap, order, flying>>
        ELSE /\ pc' = [pcs EXCEPT ![c] = "exec"]
             /\ timer' = [timers EXCEPT ![c] = NoTimer]
             /\ ticket' = [ticket EXCEPT ![c] = 0]
             /\ sinceLast' = 0
             /\ lastGap' = Min(sinceLast, interval)
             /\ order' = Append(order, tk)
             /\ flying' = [flying EXCEPT ![c] = tk]

\* a variant of idle that sees the Throttler busy only while a unit of work executes
idleWhileWaiting(busy) == ~(\E c \in Callers : pc[c] = "exec")

\* a variant of idle that never sees the Throttler busy
idleAlways(busy) == TRUE

\* if (!this.running) ... else this.queue.push(run)
idle(busy) == ~busy

\* throttler.schedule(fn) called by caller c: the promise executor
schedule(c) ==
    LET tk == nTickets + 1
    IN  /\ nTickets' = tk
        /\ promise' = [promise EXCEPT ![c] = Pending]
        /\ IF idle(running)
           THEN /\ running' = TRUE
                /\ queue' = queue
                /\ run(c, tk, pc, timer)
           ELSE /\ queue' = Append(queue, c)
                /\ ticket' = [ticket EXCEPT ![c] = tk]
                /\ pc' = [pc EXCEPT ![c] = "queued"]
                /\ timer' = [timer EXCEPT ![c] = NoTimer]
                /\ UNCHANGED <<running, sinceLast, lastGap, order, flying>>

\* the timer of run fires: this.lastTime = Date.now(), then fn is invoked
GapTimerFires(c) ==
    /\ pc[c] = "gap"
    /\ ~MicrotaskPending
    /\ timer[c] = 0
    /\ pc' = [pc EXCEPT ![c] = "exec"]
    /\ timer' = [timer EXCEPT ![c] = NoTimer]
    /\ sinceLast' = 0
    /\ lastGap' = Min(sinceLast, interval)
    /\ order' = Append(order, ticket[c])
    /\ flying' = [flying EXCEPT ![c] = ticket[c]]
    /\ ticket' = [ticket EXCEPT ![c] = 0]
    /\ UNCHANGED <<interval, running, queue, promise, retryVars,
                   fnOut, hist, calls, waits, nTickets, done, response>>

\* a variant of settle that rejects with a failure of the Throttler's own
settleWrapped(promises, c, o) ==
    [promises EXCEPT ![c] = IF o.state = "rejected" THEN Rejected(NoFailure) ELSE o]

\* resolve(result) / reject(e) of the entry of caller c
settle(promises, c, o) == [promises EXCEPT ![c] = o]

\* a variant of shift that leaves the entry taken in the queue (queue[0])
shiftPeek(q) == [next |-> Head(q), rest |-> q]

\* a variant of shift that takes the newest entry (queue.pop())
pop(q) == [next |-> q[Len(q)], rest |-> SubSeq(q, 1, Len(q) - 1)]

\* const next = this.queue.shift(): the entry taken and the queue left
shift(q) == [next |-> Head(q), rest |-> Tail(q)]

(* a variant of finallyBlock that leaves the Throttler busy when nothing is  *)
(* queued                                                                   *)
finallyBlockKeepsSlot(c) ==
    IF queue # <<>>
    THEN LET taken == shift(queue)
             next == taken.next
         IN  /\ running' = TRUE
             /\ queue' = taken.rest
             /\ run(next, ticket[next], [pc EXCEPT ![c] = "settled"], timer)
    ELSE /\ running' = running
         /\ queue' = queue
         /\ pc' = [pc EXCEPT ![c] = "settled"]
         /\ UNCHANGED <<timer, ticket, sinceLast, lastGap, order, flying>>

(* the finally block of run, for the entry of caller c: running = false,    *)
(* and the next queued run, if any, is started up to its first suspension   *)
finallyBlock(c) ==
    IF queue # <<>>
    THEN LET taken == shift(queue)
             next == taken.next
         IN  /\ running' = TRUE
             /\ queue' = taken.rest
             /\ run(next, ticket[next], [pc EXCEPT ![c] = "settled"], timer)
    ELSE /\ running' = FALSE
         /\ queue' = queue
         /\ pc' = [pc EXCEPT ![c] = "settled"]
         /\ UNCHANGED <<timer, ticket, sinceLast, lastGap, order, flying>>

(* a variant of FnSettles that runs the finally block only after a success  *)
(* (the queue is drained inside the try block)                              *)
FnSettlesDrainInTry(c, o) ==
    /\ pc[c] = "exec"
    /\ fnOut' = [fnOut EXCEPT ![c] = o]
    /\ promise' = settle(promise, c, o)
    /\ done' = Append(done, flying[c])
    /\ IF o.state = "resolved"
       THEN finallyBlock(c)
       ELSE /\ pc' = [pc EXCEPT ![c] = "settled"]
            /\ UNCHANGED <<running, queue, timer, ticket, sinceLast, lastGap, order,
                           flying>>
    /\ UNCHANGED <<interval, retryVars, hist, calls, waits, nTickets, response>>

(* fn of caller c settles with o: run resumes after `await fn()`, settles   *)
(* the entry's promise and runs the finally block.                          *)
FnSettles(c, o) ==
    /\ pc[c] = "exec"
    /\ fnOut' = [fnOut EXCEPT ![c] = o]
    /\ promise' = settle(promise, c, o)
    /\ done' = Append(done, flying[c])
    /\ finallyBlock(c)
    /\ UNCHANGED <<interval, retryVars, hist, calls, waits, nTickets, response>>

\* ------------------------------------------------------------- withRetries
RECURSIVE Sum(_, _)
Sum(f, S) == IF S = {} THEN 0 ELSE LET x == CHOOSE y \in S : TRUE IN f[x] + Sum(f, S \ {x})

\* the retry budgets handed out so far
Budgeted == Sum(maxRetries, Callers)

\* withRetries(() => throttler.schedule(fn), m) is called: attempt 0 starts
Call(c, m) ==
    /\ pc[c] = "idle"
    /\ \A d \in Callers : d < c => pc[d] # "idle"
    /\ ~MicrotaskPending
    /\ Budgeted + m <= MaxTotalRetries
    /\ maxRetries' = [maxRetries EXCEPT ![c] = m]
    /\ attempt' = [attempt EXCEPT ![c] = 0]
    /\ calls' = [calls EXCEPT ![c] = 1]
    /\ schedule(c)
    /\ UNCHANGED <<interval, lastErr, result, fnOut, hist, waits, done, response>>

\* the kind of an attempt's outcome
Kind(o) ==
    IF o.state = "resolved" THEN "ok"
    ELSE IF isRateLimited(o.error) THEN "rate-limited" ELSE "other"

\* a variant of retryable with one attempt counter shared by all calls
retryableSharedBudget(e, n, m) ==
    isRateLimited(e) /\ Sum(attempt, Callers) < m

\* a variant of retryable that does not classify the failure
retryableAnyFailure(e, n, m) == n < m

\* a variant of retryable that retries once more (attempt <= maxRetries)
retryableOnceMore(e, n, m) == isRateLimited(e) /\ n <= m

\* isRateLimited(e) && attempt < maxRetries
retryable(e, n, m) == isRateLimited(e) /\ n < m

\* a variant of caught that keeps the first failure (lastErr ??= e)
caughtKeepsFirst(last, e) == IF last.hasMessage THEN last ELSE e

\* lastErr = e
caught(last, e) == e

(* withRetries resumes after `await work()`: it returns the value, or       *)
(* catches the failure and either starts the backoff timer or throws.  An   *)
(* exception raised inside the catch block leaves withRetries.              *)
Resume(c) ==
    /\ pc[c] = "settled"
    /\ hist' = [hist EXCEPT ![c] = Append(@, Kind(promise[c]))]
    /\ flying' = [flying EXCEPT ![c] = 0]
    /\ IF promise[c].state = "resolved"
       THEN /\ pc' = [pc EXCEPT ![c] = "returned"]
            /\ result' = [result EXCEPT ![c] = promise[c]]
            /\ UNCHANGED <<lastErr, timer, waits>>
       ELSE LET e == promise[c].error
                err == caught(lastErr[c], e)
            IN  /\ lastErr' = [lastErr EXCEPT ![c] = err]
                /\ IF retryable(e, attempt[c], maxRetries[c])
                   THEN IF parseRetryDelayMs(e).raised
                        THEN /\ pc' = [pc EXCEPT ![c] = "threw"]
                             /\ result' = [result EXCEPT ![c] = Rejected(ParsingError)]
                             /\ UNCHANGED <<timer, waits>>
                        ELSE /\ pc' = [pc EXCEPT ![c] = "backoff"]
                             /\ timer' = [timer EXCEPT ![c] = BackoffDelay(e, attempt[c])]
                             /\ waits' = [waits EXCEPT ![c] = @ + 1]
                             /\ UNCHANGED result
                   ELSE /\ pc' = [pc EXCEPT ![c] = "threw"]
                        /\ result' = [result EXCEPT ![c] = Rejected(err)]
                        /\ UNCHANGED <<timer, waits>>
    /\ UNCHANGED <<throttlerVars, promise, maxRetries, attempt,
                   fnOut, calls, ticket, nTickets, order, lastGap, done, response>>

\* a variant of nextAttempt that leaves attempt as it is
nextAttemptStuck(n) == n

\* attempt++
nextAttempt(n) == n + 1

(* the backoff timer fires: attempt++, and the loop tests attempt <=        *)
(* maxRetries and invokes work again, or is left and lastErr is thrown      *)
BackoffFires(c) ==
    /\ pc[c] = "backoff"
    /\ ~MicrotaskPending
    /\ timer[c] <= 0
    /\ attempt' = [attempt EXCEPT ![c] = nextAttempt(@)]
    /\ IF attempt'[c] <= maxRetries[c]
       THEN /\ calls' = [calls EXCEPT ![c] = @ + 1]
            /\ schedule(c)
            /\ UNCHANGED result
       ELSE /\ pc' = [pc EXCEPT ![c] = "threw"]
            /\ result' = [result EXCEPT ![c] = Rejected(lastErr[c])]
            /\ timer' = [timer EXCEPT ![c] = NoTimer]
            /\ UNCHANGED <<calls, throttlerVars, promise, ticket, nTickets, order, lastGap,
                           flying>>
    /\ UNCHANGED <<interval, maxRetries, lastErr, fnOut, hist, waits, done, response>>

\* ---------------------------------------------- POST /api/edit-image, catch
\* const message = err instanceof Error ? err.message : "Unknown error"
errorMessage(err) == IF err.isError THEN MessageOf(err) ELSE UnknownError

\* message.includes(w)
MessageIncludes(message, w) ==
    ~message.unknown /\ \E i \in DOMAIN message.words : message.words[i] = w

(* (message.includes("RESOURCE_EXHAUSTED") ||                               *)
(*  message.includes("Too Many Requests")) ? 429 : 500                      *)
statusOf(message) ==
    IF \/ MessageIncludes(message, "RESOURCE_EXHAUSTED")
       \/ MessageIncludes(message, "Too Many Requests")
    THEN 429 ELSE 500

\* a variant of retryAfterMs that reports the hint only with status 429
retryAfterIfLimited(err, status) ==
    IF status = 429 THEN parseRetryDelayMs(err) ELSE Undefined

\* const retryAfterMs = parseRetryDelayMs(err)
retryAfterMs(err, status) == parseRetryDelayMs(err)

(* withRetries has thrown into the handler of caller c: the catch block     *)
(* builds the failure response                                              *)
RespondFailure(c) ==
    /\ pc[c] = "threw"
    /\ ~response[c].sent
    /\ LET err == result[c].error
           message == errorMessage(err)
           status == statusOf(message)
           hint == retryAfterMs(err, status)
       IN  response' = [response EXCEPT ![c] =
                           IF hint.raised THEN ServerError
                           ELSE FailureResponse(status, message, hint)]
    /\ UNCHANGED <<throttlerVars, pc, timer, promise, retryVars, histVars>>

\* --------------------------------------------------------------------- time
(* Time passes while something waits for it: a timer not yet due, a unit of *)
(* work still within MaxWorkMs, or the minimum gap after the last dispatch. *)
Tick ==
    /\ ~MicrotaskPending
    /\ \A c \in Callers : pc[c] = "exec" => sinceLast + TickMs <= MaxWorkMs
    /\ \/ \E c \in Callers : pc[c] \in {"gap", "backoff"} /\ timer[c] > 0
       \/ \E c \in Callers : pc[c] = "exec"
       \/ sinceLast < interval
    /\ sinceLast' = IF sinceLast + TickMs > MaxAge THEN MaxAge ELSE sinceLast + TickMs
    /\ timer' = [c \in Callers |->
                   IF timer[c] > 0 THEN Max(0, timer[c] - TickMs) ELSE timer[c]]
    /\ UNCHANGED <<interval, running, queue, pc, promise, retryVars, histVars, response>>

Next ==
    \/ \E c \in Callers, m \in RetryBudgets : Call(c, m)
    \/ \E c \in Callers : GapTimerFires(c)
    \/ \E c \in Callers : \E o \in Outcomes(c) : FnSettles(c, o)
    \/ \E c \in Callers : Resume(c)
    \/ \E c \in Callers : BackoffFires(c)
    \/ \E c \in Callers : RespondFailure(c)
    \/ Tick

Spec == Init /\ [][Next]_vars

(* The event loop keeps going while it has something to run: timers fire,  *)
(* time passes, every dispatched unit of work settles and every             *)
(* continuation of a settled promise runs.  No new call is ever required.   *)
Progress ==
    \/ \E c \in Callers : GapTimerFires(c)
    \/ \E c \in Callers : \E o \in Outcomes(c) : FnSettles(c, o)
    \/ \E c \in Callers : Resume(c)
    \/ \E c \in Callers : BackoffFires(c)
    \/ \E c \in Callers : RespondFailure(c)
    \/ Tick

FairSpec == Spec /\ WF_vars(Progress)

TypeOK ==
    /\ sinceLast \in 0..MaxAge /\ lastGap \in 0..interval /\ interval \in Intervals
    /\ running \in BOOLEAN
    /\ \A c \in Callers :
         pc[c] \in {"idle", "queued", "gap", "exec", "settled", "backoff", "returned", "threw"}

\* --------------------------------------------- the wait before a retry
(* One request, withRetries(work, MaxRetries) as the call site passes it:   *)
(* its attempt n, made after n rate-limit failures, has just failed and     *)
(* the Throttler has settled its promise; withRetries resumes.  The failure *)
(* is a rate-limit failure or another one, and carries any retryDelay       *)
(* string up to MaxDelayLen, or none.                                       *)
DelayChars == {"0", "1", "3", "4", "5", ".", "s"}
DelayStrings(k) == [1..k -> DelayChars]   \* the retryDelay strings of length k
ShortDelays == UNION {DelayStrings(k) : k \in 0..2}

\* the marker words of the failure's message
HintWords == {<<"RESOURCE_EXHAUSTED", "quota">>, <<"internal error">>}
OtherWords == HintWords \cup {<<"quota">>, <<"Too Many Requests">>}

\* an Error whose message is the empty string
NoMessage == [isError |-> TRUE, hasMessage |-> FALSE, words |-> <<>>, json |-> NoJson]

\* a failure whose details hold one RetryInfo entry, with retryDelay d
Hinted(w, d) == Failure(w, JsonDetails(<<RetryInfo(d)>>))

\* details of other shapes: nothing to find, or several entries
OtherDetails ==
    {<<>>, <<OtherDetail>>, <<RetryInfoNoDelay>>,
     <<RetryInfoNoDelay, RetryInfo(<<"3", "s">>)>>}
        \cup {<<OtherDetail, RetryInfo(d)>> : d \in ShortDelays}
        \cup {<<RetryInfo(d), RetryInfo(<<"3", "s">>)>> : d \in ShortDelays}

OtherJsons == {NoJson, JsonNoDetails} \cup {JsonDetails(ds) : ds \in OtherDetails}

\* Error instances and other thrown values, with and without a message
OtherFailures ==
    {Failure(w, j) : w \in OtherWords, j \in OtherJsons}
        \cup {Thrown(w, j) : w \in OtherWords, j \in OtherJsons}
        \cup {NoMessage, NoFailure}

\* attempt n of caller 1 has failed with e and its promise is rejected
AttemptFailed(n, e) ==
    LET first == [c \in Callers |-> c = 1]
        failed == n > 0
    IN  /\ interval = MIN_INTERVAL_MS
        /\ sinceLast = 0
        /\ running = FALSE
        /\ queue = <<>>
        /\ pc = [c \in Callers |-> IF first[c] THEN "settled" ELSE "idle"]
        /\ maxRetries = [c \in Callers |-> IF first[c] THEN MaxRetries ELSE 0]
        /\ attempt = [c \in Callers |-> IF first[c] THEN n ELSE 0]
        /\ lastErr = [c \in Callers |->
                         IF first[c] /\ failed THEN ErrExhausted ELSE NoFailure]
        /\ timer = [c \in Callers |-> NoTimer]
        /\ promise = [c \in Callers |-> IF first[c] THEN Rejected(e) ELSE Pending]
        /\ result = [c \in Callers |-> Pending]
        /\ fnOut = [c \in Callers |-> IF first[c] THEN Rejected(e) ELSE Pending]
        /\ hist = [c \in Callers |->
                      IF first[c] THEN [i \in 1..n |-> "rate-limited"] ELSE <<>>]
        /\ calls = [c \in Callers |-> IF first[c] THEN n + 1 ELSE 0]
        /\ waits = [c \in Callers |-> IF first[c] THEN n ELSE 0]
        /\ ticket = [c \in Callers |-> 0]
        /\ nTickets = n + 1
        /\ order = [i \in 1..(n + 1) |-> i]
        /\ lastGap = interval
        /\ flying = [c \in Callers |-> IF first[c] THEN n + 1 ELSE 0]
        /\ done = [i \in 1..(n + 1) |-> i]
        /\ response = [c \in Callers |-> NoResponse]

HintInit ==
    \/ \E n \in 0..MaxRetries, w \in HintWords, k \in 0..MaxDelayLen :
          \E d \in DelayStrings(k) : AttemptFailed(n, Hinted(w, d))
    \/ \E n \in 0..MaxRetries, e \in OtherFailures : AttemptFailed(n, e)

HintNext ==
    \/ Resume(1)
    \/ RespondFailure(1)

HintSpec == HintInit /\ [][HintNext]_vars

\* ------------------------------------------------------------------ claims
Executing == {c \in Callers : pc[c] = "exec"}

(* C1: at most one submitted unit of work is executing at any instant, for  *)
(* every interval >= 0 (0 included) and every submission pattern.           *)
C1_MutualExclusion == Cardinality(Executing) <= 1

\* a unit of work executes while another entry is queued, with interval 0
C1_Witness ==
    /\ interval = 0
    /\ \E c, d \in Callers : pc[c] = "exec" /\ pc[d] = "queued"

(* C2: the start timestamps of every two consecutive dispatches differ by   *)
(* at least the interval.                                                   *)
C2_Spacing == Len(order) >= 2 => lastGap >= interval

(* a retry resubmission that arrived at an idle Throttler is dispatched     *)
(* after an earlier dispatch, with a positive interval                      *)
C2_Witness ==
    /\ interval > 0
    /\ Len(order) >= 2
    /\ \E c \in Callers : pc[c] = "exec" /\ attempt[c] >= 1 /\ queue = <<>>

(* C3: dispatch starts occur in the order of the schedule calls: the k-th   *)
(* dispatch start is that of the k-th schedule call.                        *)
C3_Fifo == \A i \in 1..Len(order) : order[i] = i

(* two entries were queued behind a running one, which has just settled     *)
(* (its continuation has not run yet): the older of the two was taken       *)
C3_Witness ==
    \E a, c, d \in Callers :
        /\ pc[a] = "settled" /\ promise[a].state = "rejected"
        /\ pc[c] = "exec" /\ order = <<1, 2>>
        /\ queue = <<d>> /\ ticket[d] = 3

(* C4: the promise of schedule(work) settles with exactly what that work    *)
(* settled with, and only when that work has settled: no outcome reaches    *)
(* another caller's promise and the Throttler raises no failure of its own. *)
C4_Relay ==
    \A c \in Callers :
        /\ pc[c] \in {"idle", "queued", "gap", "exec"} => promise[c] = Pending
        /\ promise[c] # Pending => promise[c] = fnOut[c]
        /\ promise[c].state = "resolved" => promise[c].value = c
        /\ promise[c].state = "rejected" => promise[c].error \in Errors

\* one caller's work failed and a sibling's work succeeded
C4_Witness ==
    \E c, d \in Callers :
        /\ promise[c] = Rejected(ErrHinted)
        /\ promise[d] = Resolved(d)

AllRateLimited(h) == \A i \in 1..Len(h) : h[i] = "rate-limited"

(* C6: an attempt that fails with a non-retryable failure is the last one:  *)
(* withRetries has thrown that failure, with no backoff wait started after  *)
(* it and no further invocation, whatever attempt and maxRetries are.       *)
C6_NonRetryableFailsFast ==
    \A c \in Callers : \A i \in 1..Len(hist[c]) :
        hist[c][i] = "other" =>
            /\ i = Len(hist[c])
            /\ pc[c] = "threw"
            /\ result[c] = fnOut[c]
            /\ calls[c] = i
            /\ waits[c] = i - 1
            /\ timer[c] = NoTimer

\* with maxRetries = 2, the first attempt failed non-retryably: one invocation
C6_Witness ==
    \E c \in Callers :
        /\ maxRetries[c] = 2 /\ hist[c] = <<"other">>
        /\ pc[c] = "threw" /\ calls[c] = 1 /\ waits[c] = 0

(* C7: withRetries never invokes the work more than maxRetries + 1 times;   *)
(* when every attempt fails with a rate-limit failure it invokes the work   *)
(* exactly maxRetries + 1 times, waits exactly maxRetries times (not after  *)
(* the last attempt) and then throws.                                       *)
C7_RetryExhaustion ==
    \A c \in Callers :
        /\ calls[c] <= maxRetries[c] + 1
        /\ waits[c] <= maxRetries[c]
        /\ AllRateLimited(hist[c]) /\ Len(hist[c]) = maxRetries[c] + 1 =>
              pc[c] = "threw" /\ calls[c] = maxRetries[c] + 1 /\ waits[c] = maxRetries[c]
        /\ AllRateLimited(hist[c]) /\ pc[c] = "threw" =>
              Len(hist[c]) = maxRetries[c] + 1

\* maxRetries = 2 and three rate-limit failures: three invocations, two waits
C7_Witness ==
    \E c \in Callers :
        /\ maxRetries[c] = 2
        /\ hist[c] = <<"rate-limited", "rate-limited", "rate-limited">>
        /\ pc[c] = "threw" /\ calls[c] = 3 /\ waits[c] = 2

(* C8: whenever withRetries throws, it throws exactly the failure of the    *)
(* last attempt made, as the work raised it.                                *)
C8_LastFailureSurfaces ==
    \A c \in Callers :
        pc[c] = "threw" =>
            /\ result[c].state = "rejected"
            /\ result[c] = fnOut[c]
            /\ result[c].error \in Errors

\* a rate-limit failure was followed by a different, non-retryable failure
C8_Witness ==
    \E c \in Callers :
        /\ pc[c] = "threw"
        /\ hist[c] = <<"rate-limited", "other">>
        /\ result[c] = Rejected(ErrInternal)

(* C9: when the work fails with rate-limit failures on attempts 0..k-1 and  *)
(* succeeds on attempt k, withRetries returns that attempt's value after    *)
(* exactly k + 1 invocations.                                               *)
C9_SuccessAfterRetries ==
    \A c \in Callers :
        pc[c] = "returned" =>
            /\ result[c] = Resolved(c)
            /\ result[c] = fnOut[c]
            /\ hist[c][Len(hist[c])] = "ok"
            /\ AllRateLimited(SubSeq(hist[c], 1, Len(hist[c]) - 1))
            /\ Len(hist[c]) = attempt[c] + 1
            /\ calls[c] = attempt[c] + 1
            /\ waits[c] = attempt[c]
            /\ attempt[c] <= maxRetries[c]

\* one rate-limit failure, then a success: two invocations
C9_Witness ==
    \E c \in Callers :
        /\ pc[c] = "returned"
        /\ hist[c] = <<"rate-limited", "ok">>
        /\ calls[c] = 2
        /\ result[c] = Resolved(c)

(* C5: every entry submitted to schedule is eventually dispatched, given    *)
(* that dispatched units of work settle and timers fire: the queue keeps    *)
(* draining whether the units of work before it succeed or fail.  (No entry *)
(* stays pending forever, and an entry stops being pending only by being    *)
(* dispatched.)                                                             *)
C5_QueueDrains ==
    /\ \A c \in Callers : []<>(pc[c] \notin {"queued", "gap"})
    /\ [][\A c \in Callers :
            pc[c] \in {"queued", "gap"} /\ pc'[c] \notin {"queued", "gap"}
                => pc'[c] = "exec"]_vars

(* a unit of work has just failed (its continuation has not run yet) and    *)
(* the entry that was queued behind it has been dispatched                  *)
C5_Witness ==
    \E c, d \in Callers :
        /\ pc[d] = "settled" /\ promise[d].state = "rejected"
        /\ pc[c] = "exec" /\ Len(order) = 2 /\ order[2] = 2

\* the retryDelay of the first RetryInfo entry of the failure's details
HasRetryDelay(e) ==
    /\ e.hasMessage /\ e.json.valid /\ e.json.hasDetails
    /\ FindRetryInfo(e.json.details, 1) > 0
    /\ e.json.details[FindRetryInfo(e.json.details, 1)].hasDelay
HintDelay(e) == e.json.details[FindRetryInfo(e.json.details, 1)].retryDelay

\* a retryDelay of the documented format <digits>[.<digits>]s
WellFormedDelay(d) ==
    /\ Len(d) >= 2 /\ d[Len(d)] = "s"
    /\ LET n == Len(d) - 1
           ni == DigitRun(d, 1)
       IN  /\ ni >= 1
           /\ \/ ni = n
              \/ ni + 1 < n /\ d[ni + 1] = "." /\ DigitRun(d, ni + 2) = n - ni - 1

\* the seconds a well-formed retryDelay writes, times 1000, rounded up
ExactMs(d) ==
    LET ni == DigitRun(d, 1)
        nf == IF ni = Len(d) - 1 THEN 0 ELSE Len(d) - ni - 2
        num == DecimalValue(d, 1, ni) * Pow10(nf) + DecimalValue(d, ni + 2, nf)
    IN  (num * 1000 + Pow10(nf) - 1) \div Pow10(nf)

CarriesHint(e) == HasRetryDelay(e) /\ WellFormedDelay(HintDelay(e))
NoHint(e) == ~HasRetryDelay(e) \/ ~endsWith(HintDelay(e), "s")

(* C10: the wait started after a retryable failure of attempt n, n <        *)
(* maxRetries, is the failure's retry-delay hint in milliseconds (its       *)
(* seconds times 1000, rounded up) when the failure carries a RetryInfo     *)
(* hint of the format <digits>[.<digits>]s, and is 2000 * 2^n ms when it    *)
(* carries none (no RetryInfo entry, no retryDelay, or one not ending in s).*)
C10_HintOrExponential ==
    \A c \in Callers :
        pc[c] = "backoff" =>
            /\ attempt[c] < maxRetries[c]
            /\ CarriesHint(lastErr[c]) => timer[c] = ExactMs(HintDelay(lastErr[c]))
            /\ NoHint(lastErr[c]) => timer[c] = 2000 * Pow2(attempt[c])

(* the hint "1.5s" after the failure of attempt 1: the wait is 1500 ms, not *)
(* the exponential 4000 ms                                                  *)
C10_Witness ==
    \E c \in Callers :
        /\ pc[c] = "backoff" /\ attempt[c] = 1
        /\ HasRetryDelay(lastErr[c]) /\ HintDelay(lastErr[c]) = <<"1", ".", "5", "s">>
        /\ timer[c] = 1500

(* What does hold of the wait: a well-formed hint is honoured to within one *)
(* millisecond above its exact value, and the exponential value is exact.   *)
HintWithinOneMs ==
    \A c \in Callers :
        pc[c] = "backoff" =>
            /\ attempt[c] < maxRetries[c]
            /\ CarriesHint(lastErr[c]) =>
                  timer[c] \in {ExactMs(HintDelay(lastErr[c])),
                                ExactMs(HintDelay(lastErr[c])) + 1}
            /\ NoHint(lastErr[c]) => timer[c] = 2000 * Pow2(attempt[c])

(* the retryDelay, without its final "s", does not begin with a number: its  *)
(* first character is no digit and it does not begin with "." and a digit   *)
NotNumeric(d) ==
    LET n == Len(d) - 1
    IN  \/ n < 1
        \/ /\ d[1] \notin Digits
           /\ ~(d[1] = "." /\ n >= 2 /\ d[2] \in Digits)

(* the failures C11 lists: no message, a message that is not JSON, JSON     *)
(* without error.details, details without a RetryInfo entry, a RetryInfo    *)
(* entry without retryDelay, a retryDelay not ending in "s" or not numeric  *)
WithoutHint(e) == NoHint(e) \/ NotNumeric(HintDelay(e))

(* C11: extracting the retry hint never raises.  After a failure without a  *)
(* hint, withRetries waits the exponential 2000 * 2^n ms when it retries,   *)
(* and when it throws it throws the failure of the work; the handler then   *)
(* answers from its catch block, with no retryAfterMs.  Whatever the        *)
(* failure, what withRetries throws is the failure of the work, never an    *)
(* error of the extraction, and the catch block completes.                  *)
C11_HintExtractionNeverRaises ==
    \A c \in Callers :
        /\ pc[c] = "threw" => result[c] = fnOut[c]
        /\ response[c].sent => response[c].handled
        /\ pc[c] \in {"backoff", "threw"} /\ WithoutHint(fnOut[c].error) =>
              /\ pc[c] = "backoff" => timer[c] = 2000 * Pow2(attempt[c])
              /\ response[c].sent => ~response[c].retryAfterMs.defined

(* a rate-limit failure whose message is not JSON, at attempt 1: the wait   *)
(* is 4000 ms                                                               *)
C11_Witness ==
    \E c \in Callers :
        /\ pc[c] = "backoff" /\ attempt[c] = 1
        /\ isRateLimited(lastErr[c]) /\ ~lastErr[c].json.valid
        /\ timer[c] = 4000

(* the retries are used up by a failure whose message is not JSON: the      *)
(* handler has answered with that failure and without retryAfterMs          *)
C11_WitnessReported ==
    \E c \in Callers :
        /\ pc[c] = "threw" /\ attempt[c] = maxRetries[c] /\ maxRetries[c] > 0
        /\ isRateLimited(fnOut[c].error) /\ ~fnOut[c].error.json.valid
        /\ result[c] = fnOut[c]
        /\ response[c].sent /\ response[c].handled
        /\ ~response[c].retryAfterMs.defined

\* caller c has an entry in the Throttler: queued, waiting for the gap or executing
InThrottler(c) ==
    \/ \E i \in DOMAIN queue : queue[i] = c
    \/ ticket[c] # 0
    \/ pc[c] \in {"queued", "gap", "exec"}

\* a caller in its backoff has no entry, and the slot is held only for another caller
BackoffOutsideThrottler ==
    \A c \in Callers :
        pc[c] = "backoff" =>
            /\ ~InThrottler(c)
            /\ running => \E d \in Callers \ {c} : pc[d] \in {"gap", "exec"}

\* a caller leaves its backoff when the timer has run out, with a new entry
ResubmittedAfterBackoff ==
    \A c \in Callers :
        pc[c] = "backoff" /\ pc'[c] # "backoff" =>
            /\ timer[c] = 0
            /\ nTickets' = nTickets + 1
            /\ calls'[c] = calls[c] + 1
            /\ pc'[c] \in {"queued", "gap", "exec"}

(* C12: the backoff between attempts happens outside the Throttler.  A      *)
(* caller suspended in its backoff has no entry queued, waiting or          *)
(* executing, and the Throttler is busy only on behalf of another caller;   *)
(* the retry is a new schedule call, made when the backoff timer has fired. *)
C12_BackoffOutsideThrottler ==
    []BackoffOutsideThrottler /\ [][ResubmittedAfterBackoff]_vars

(* another caller's unit of work is dispatched at this instant, while       *)
(* caller c is part-way through its backoff                                 *)
C12_Witness ==
    \E c, d \in Callers :
        /\ c # d
        /\ pc[c] = "backoff" /\ timer[c] > 0
        /\ timer[c] < BackoffDelay(lastErr[c], attempt[c])
        /\ pc[d] = "exec" /\ sinceLast = 0

\* the failure of the last attempt of caller c
FinalFailure(c) == fnOut[c].error

\* the response of caller c is the catch block's, with the hint of the final failure
CarriesFinalHint(c) ==
    /\ response[c].handled
    /\ response[c].retryAfterMs = parseRetryDelayMs(FinalFailure(c))

\* the response of caller c reports the text of the final failure's message
CarriesFinalMessage(c) ==
    /\ ~response[c].error.unknown
    /\ response[c].error.words = FinalFailure(c).words
    /\ response[c].error.json = FinalFailure(c).json

(* C13 as stated: the failure response carries the hint parsed from the     *)
(* final failure, absent when there is none, and the final failure's        *)
(* message, whatever the number of retries.                                 *)
C13_ResponseCarriesHintAndMessage ==
    \A c \in Callers :
        response[c].sent =>
            /\ result[c].state = "rejected" /\ result[c].error = FinalFailure(c)
            /\ CarriesFinalHint(c)
            /\ FinalFailure(c).hasMessage => CarriesFinalMessage(c)

(* C13, amended: the failure response carries the hint parsed from the      *)
(* final failure, absent when there is none, whatever the number of         *)
(* retries; it carries the final failure's message when that failure is an  *)
(* Error, and the text "Unknown error" when it is any other value.          *)
C13_ResponseCarriesHintAndErrorMessage ==
    \A c \in Callers :
        response[c].sent =>
            /\ result[c].state = "rejected" /\ result[c].error = FinalFailure(c)
            /\ CarriesFinalHint(c)
            /\ FinalFailure(c).isError /\ FinalFailure(c).hasMessage
                  => CarriesFinalMessage(c)
            /\ ~FinalFailure(c).isError => response[c].error = UnknownError

(* after maxRetries retries the final failure, a value that is no Error but *)
(* has a message with a hint, is answered with the hint and "Unknown error" *)
C13_Witness ==
    \E c \in Callers :
        /\ response[c].sent /\ response[c].handled
        /\ attempt[c] = maxRetries[c] /\ maxRetries[c] > 0
        /\ ~FinalFailure(c).isError /\ FinalFailure(c).hasMessage
        /\ response[c].retryAfterMs.defined
        /\ response[c].error = UnknownError

\* an Error with a hint is answered, with no retry, with its hint and its message
C13_WitnessNoRetry ==
    \E c \in Callers :
        /\ response[c].sent /\ attempt[c] = 0
        /\ FinalFailure(c).isError /\ ~isRateLimited(FinalFailure(c))
        /\ response[c].retryAfterMs.defined
        /\ CarriesFinalMessage(c)

\* the callers whose entry has computed its wait and whose work has not settled
Deciding == {c \in Callers : pc[c] \in {"gap", "exec"}}

\* one entry at most is between its wait computation and its settlement
OneDecision == Cardinality(Deciding) <= 1 /\ (Deciding # {} => running)

(* while the entry of d is between its wait computation and its settlement, *)
(* a step that does not settle it lets no other entry compute a wait or     *)
(* execute, records no dispatch but d's own, and queues every submission    *)
NoInterleaving ==
    \A d \in Deciding :
        pc'[d] \in {"gap", "exec"} =>
            /\ \A c \in Callers \ {d} :
                  /\ pc'[c] \notin {"gap", "exec"}
                  /\ pc[c] \in {"idle", "backoff"} /\ pc'[c] # pc[c]
                        => /\ pc'[c] = "queued"
                           /\ queue' = Append(queue, c)
                           /\ timer'[c] = NoTimer
            /\ order' # order =>
                  /\ pc[d] = "gap" /\ pc'[d] = "exec"
                  /\ order' = Append(order, ticket[d])
            /\ order' = order => sinceLast' >= sinceLast

(* C14: the dispatch decision is a critical section.  From the wait         *)
(* computation of an entry to the settlement of its unit of work no other   *)
(* entry computes a wait, updates lastTime or executes; a submission that   *)
(* arrives during the gap wait of another entry is queued.                  *)
C14_DispatchIsCriticalSection == []OneDecision /\ [][NoInterleaving]_vars

\* an entry is queued behind an entry that is still waiting for the gap
C14_Witness ==
    \E c, d \in Callers :
        /\ pc[d] = "gap" /\ timer[d] > 0
        /\ pc[c] = "queued" /\ queue = <<c>>
        /\ ticket[c] > ticket[d]

\* this step makes the entry of caller c the next to dispatch
BecomesNext(c) ==
    /\ pc[c] \in {"idle", "backoff", "queued"}
    /\ pc'[c] \in {"gap", "exec"}

(* the entry that becomes next starts at once when the interval has         *)
(* elapsed, and otherwise waits for what is left of the interval            *)
DecidesAtOnce ==
    \A c \in Callers :
        BecomesNext(c) =>
            IF sinceLast >= interval
            THEN pc'[c] = "exec" /\ sinceLast' = 0 /\ Len(order') = Len(order) + 1
            ELSE pc'[c] = "gap" /\ timer'[c] = interval - sinceLast /\ order' = order

(* no separate start step: a submission to an idle Throttler, and the head  *)
(* of the queue when the executing unit of work settles, become next in     *)
(* that same step                                                           *)
NoStartStep ==
    /\ \A c \in Callers :
          ~running /\ pc[c] \in {"idle", "backoff"} /\ pc'[c] # pc[c] => BecomesNext(c)
    /\ \A d \in Callers :
          pc[d] = "exec" /\ pc'[d] # "exec" /\ queue # <<>> => BecomesNext(Head(queue))

\* the gap wait ends when its timer has run out
StartsWhenDue ==
    \A c \in Callers : pc[c] = "gap" /\ pc'[c] # "gap" => timer[c] = 0 /\ pc'[c] = "exec"

\* what is left of a gap wait is what is left of the interval
WaitsForTheInterval ==
    \A c \in Callers :
        pc[c] = "gap" => interval > 0 /\ timer[c] = Max(0, interval - sinceLast)

(* C15: an entry that becomes next at time t makes its dispatch decision in *)
(* that step, waits exactly max(0, lastTime + interval - t), starts at once *)
(* when the interval has already elapsed, and is due exactly when the       *)
(* interval has elapsed since the last dispatch.                            *)
C15_ImmediateDecision ==
    []WaitsForTheInterval /\ [][DecidesAtOnce /\ NoStartStep /\ StartsWhenDue]_vars

(* a retry submitted to an idle Throttler after the interval has elapsed is *)
(* executing with no wait                                                   *)
C15_Witness ==
    \E c \in Callers :
        /\ interval > 0 /\ pc[c] = "exec" /\ attempt[c] >= 1
        /\ sinceLast = 0 /\ lastGap >= interval
        /\ \A d \in Callers \ {c} : pc[d] = "idle"

\* the head of the queue became next at a settlement and waits out the interval
C15_WitnessGap ==
    \E c, d \in Callers :
        /\ pc[d] = "settled" /\ pc[c] = "gap"
        /\ timer[c] = interval - sinceLast /\ timer[c] > 0

(* C16: units of work settle in the order of their dispatch: the k-th       *)
(* settlement is that of the k-th dispatched unit, whatever the durations.  *)
C16_CompletionInDispatchOrder ==
    /\ Len(done) <= Len(order)
    /\ \A k \in 1..Len(done) : done[k] = order[k]

(* two units of work have settled and a third, dispatched after them with   *)
(* no interval to wait for, has been executing for some time                *)
C16_Witness ==
    /\ Len(done) = 2 /\ Len(order) = 3
    /\ \E c \in Callers : pc[c] = "exec" /\ flying[c] = order[3] /\ sinceLast > 0
    /\ interval = 0

\* the retry state of the call of caller c, and what the call has done so far
RetryState(c) ==
    <<maxRetries[c], attempt[c], lastErr[c], result[c], hist[c], calls[c], waits[c]>>

(* where the call of caller c stands, as its own attempts determine it: h   *)
(* are the kinds of the outcomes withRetries has seen, m is maxRetries      *)
OwnCourse(c) ==
    LET h == hist[c]
        n == Len(h)
        m == maxRetries[c]
    IN  /\ \A i \in 1..(n - 1) : h[i] = "rate-limited"
        /\ n <= m + 1
        /\ IF n = 0 THEN pc[c] \in {"idle", "queued", "gap", "exec", "settled"}
           ELSE IF h[n] = "ok" THEN pc[c] = "returned"
           ELSE IF h[n] = "other" \/ n = m + 1 THEN pc[c] = "threw"
           ELSE pc[c] \in {"backoff", "queued", "gap", "exec", "settled"}
        /\ attempt[c] = IF pc[c] \in {"backoff", "returned", "threw"} THEN n - 1 ELSE n
        /\ calls[c] = IF pc[c] \in {"idle", "backoff", "returned", "threw"} THEN n ELSE n + 1
        /\ waits[c] = IF pc[c] \in {"returned", "threw"} THEN n - 1 ELSE n
        /\ pc[c] \in {"returned", "threw"} => result[c] = fnOut[c]
        /\ calls[c] <= m + 1

(* a step changes the retry state of one call at most, and a backoff wait   *)
(* is computed from the call's own failure and attempt number               *)
OwnStep ==
    \A c \in Callers :
        RetryState(c)' # RetryState(c) =>
            /\ \A d \in Callers \ {c} : RetryState(d)' = RetryState(d)
            /\ pc'[c] = "backoff" /\ pc[c] # "backoff" =>
                  timer'[c] = BackoffDelay(promise[c].error, attempt[c])

(* C17: the retry state is local to each withRetries call.  The attempt     *)
(* number, the waits and the outcome of a call follow from the outcomes of  *)
(* its own attempts and its own maxRetries, a step of one call leaves the   *)
(* retry state of every other call as it is, and a call invokes the work at *)
(* most maxRetries + 1 times.                                               *)
C17_RetryStateIsLocal == [](\A c \in Callers : OwnCourse(c)) /\ [][OwnStep]_vars

(* a call with no retries has thrown its rate-limit failure while another   *)
(* call is at its second attempt                                            *)
C17_Witness ==
    \E c, d \in Callers :
        /\ c # d
        /\ maxRetries[d] = 0 /\ pc[d] = "threw" /\ hist[d] = <<"rate-limited">>
        /\ attempt[c] = 1 /\ pc[c] \in {"queued", "gap", "exec"}

\* the call of caller c is not under way: not made yet, or ended
Terminated(c) == pc[c] \in {"idle", "returned", "threw"}

(* C18: every withRetries call terminates, given that units of work settle  *)
(* and timers fire: from some moment on the call has returned a value or    *)
(* thrown a failure, and its attempt number never passes maxRetries.        *)
C18_EveryCallTerminates ==
    \A c \in Callers :
        /\ <>[]Terminated(c)
        /\ [](attempt[c] <= maxRetries[c] /\ calls[c] <= maxRetries[c] + 1)

(* three concurrent calls have ended, one of them by exhausting two retries *)
C18_Witness ==
    /\ \A c \in Callers : pc[c] \in {"returned", "threw"}
    /\ \E c \in Callers : pc[c] = "threw" /\ attempt[c] = 2 /\ waits[c] = 2
    /\ Len(done) = NCallers + 2

\* the callers whose entry is in the queue
Queued == {queue[i] : i \in DOMAIN queue}

\* the callers whose entry was submitted and is not dispatched yet
Undispatched == {c \in Callers : pc[c] \in {"queued", "gap"}}

\* the tickets dispatched so far
Dispatched == {order[i] : i \in DOMAIN order}

(* C19: entries are pending only while the Throttler is busy.  With running *)
(* false the queue is empty; the entries in the queue are, once each, those *)
(* that have neither started a wait nor been dispatched; every ticket       *)
(* handed out is dispatched once or belongs to an entry still to be         *)
(* dispatched, so no entry is dispatched twice, dropped or stranded.        *)
C19_PendingOnlyWhileBusy ==
    /\ ~running => queue = <<>> /\ Undispatched = {}
    /\ Queued = {c \in Callers : pc[c] = "queued"}
    /\ Cardinality(Queued) = Len(queue)
    /\ \A c \in Queued : timer[c] = NoTimer /\ flying[c] = 0
    /\ \A c \in Undispatched : ticket[c] \in 1..nTickets /\ ticket[c] \notin Dispatched
    /\ \A c, d \in Undispatched : c # d => ticket[c] # ticket[d]
    /\ Cardinality(Dispatched) = Len(order)
    /\ Dispatched \cup {ticket[c] : c \in Undispatched} = 1..nTickets

(* the Throttler is idle with an empty queue after five submissions, all of *)
(* them dispatched and settled                                              *)
C19_Witness ==
    /\ ~running /\ queue = <<>>
    /\ nTickets = 5 /\ Len(order) = 5 /\ Len(done) = 5

\* two entries are queued behind an executing unit of work
C19_WitnessQueued ==
    /\ running /\ Len(queue) = 2
    /\ \E c \in Callers : pc[c] = "exec"

(* C20: the call site and withRetries agree on what a rate-limit failure    *)
(* is: the failure response has status 429 exactly when isRateLimited holds *)
(* of the final failure, and status 500 exactly when it does not.           *)
C20_StatusAgreesWithRetryPolicy ==
    \A c \in Callers :
        response[c].sent =>
            /\ response[c].status = 429 <=> isRateLimited(FinalFailure(c))
            /\ response[c].status = 500 <=> ~isRateLimited(FinalFailure(c))

(* a failure that withRetries retried twice as a rate-limit failure is      *)
(* answered by the catch block with status 500                              *)
C20_Witness ==
    \E c \in Callers :
        /\ response[c].sent /\ response[c].handled
        /\ attempt[c] = 2 /\ maxRetries[c] = 2
        /\ isRateLimited(FinalFailure(c))
        /\ FinalFailure(c).isError
        /\ response[c].status = 500

\* the status is never 429 for a failure that withRetries does not retry
StatusLimitedOnlyIfRetryable ==
    \A c \in Callers :
        response[c].sent /\ response[c].status = 429 => isRateLimited(FinalFailure(c))

=============================================================================
